---- MODULE Spec2Model ----
(***************************************************************************)
(* Model of the audio translation route (src/app/api/process-audio/       *)
(* route.ts): the POST handler as a sequence of awaited calls, the         *)
(* module-level pipeline promise cache (getASR / getTranslator / getTTS),  *)
(* and the per-request workspace directory; and of the page that submits   *)
(* to it (src/app/page.tsx): the component state, handleSubmit and its     *)
(* progress timers.                                                        *)
(*                                                                         *)
(* A request is suspended at exactly one awaited call at a time; pc[r]     *)
(* names that call.  One action settles the call (resolve or reject) and   *)
(* runs the synchronous code that follows it up to the next await.         *)
(***************************************************************************)
EXTENDS Integers, Sequences, FiniteSets, TLC

\* ------------------------------------------------------------------ bounds
NumReq == 2

Req == 1 .. NumReq

\* Submissions of the page's form that are followed.
MaxSubmissions == 2

Sub == 1 .. MaxSubmissions

\* ------------------------------------------------- constants of the route
NULL == "<null>"        \* FormData.get() of an absent field; a missing property
FILE == "<File>"        \* a FormData entry that is a File, not a string
FALSE_ == "<false>"     \* the value of (typeof x === 'object' && ...) for a non-object

SupportedLanguage == {"en", "es", "fr", "de", "it", "pt"}

TTS_MODEL ==
  [l \in SupportedLanguage |-> "Xenova/mms-tts-" \o l]

TRANSLATION_LANG ==
  [l \in SupportedLanguage |-> l]

ASR_MODEL == "Xenova/whisper-small"
TRANSLATION_MODEL == "Xenova/m2m100_418M"

Models == {ASR_MODEL, TRANSLATION_MODEL} \cup {TTS_MODEL[l] : l \in SupportedLanguage}

\* Properties every JavaScript object inherits from Object.prototype: present
\* for the `in` operator, absent for hasOwnProperty.
ObjectPrototypeKeys == {"constructor", "toString"}

\* The stages of the orchestrator's state machine, by the call that runs them.
Stages ==
  <<"convertToWav", "createInstrumental", "asr", "translator", "tts",
    "normalizeVoice", "mixTracks">>

StageSet == {Stages[i] : i \in 1 .. Len(Stages)}

\* ------------------------------------------------------------------ state
VARIABLES
  pc,                   \* the awaited call each request is suspended at
  formAudio,            \* formData.get('audio') as the client sent it
  formTargetLanguage,   \* formData.get('targetLanguage') as the client sent it
  targetLanguage,       \* the validated target language (line 82)
  workspace,            \* the directory mkdtemp returned (0: none)
  dirs,                 \* workspace directories that exist on disk
  nextDir,              \* source of mkdtemp's unique suffix
  asrPipelinePromise,   \* line 40
  translationPipelinePromise, \* line 41
  ttsPipelines,         \* line 42
  ctorCalls,            \* calls of pipeline(task, model), per model
  constructed,          \* models whose pipeline() call this request made
  asr, translator, tts, \* the pipelines the request obtained from its awaits
  detectedLanguage,     \* line 119
  srcLang, tgtLang,     \* options passed to the translator (lines 125-129)
  log,                  \* awaited calls the request has issued, in order
  thrown,               \* what threw inside the request
  completion,           \* the try block's pending completion when finally runs
  rmFailed,             \* rm() rejected
  response,             \* the NextResponse POST returned
  asrResult,            \* line 102
  translationResult,    \* line 124
  disconnectedAt,       \* the call the request was in when its client went away
  stagesAfterDisconnect \* stages started after the client went away

serverVars ==
  <<pc, formAudio, formTargetLanguage, targetLanguage, workspace, dirs, nextDir,
    asrPipelinePromise, translationPipelinePromise, ttsPipelines, ctorCalls,
    constructed, asr, translator, tts, detectedLanguage, srcLang, tgtLang,
    log, thrown, completion, rmFailed, response, asrResult, translationResult,
    disconnectedAt, stagesAfterDisconnect>>

formVars == <<formAudio, formTargetLanguage, targetLanguage>>

textVars == <<asrResult, detectedLanguage, translationResult, srcLang, tgtLang>>

cacheVars ==
  <<asrPipelinePromise, translationPipelinePromise, ttsPipelines, ctorCalls,
    constructed>>

handleVars == <<asr, translator, tts>>

fsVars == <<workspace, dirs, nextDir>>

\* State of the page (src/app/page.tsx).
VARIABLES
  file,                 \* line 36
  status,               \* line 38
  progress,             \* line 39, in tenths
  downloadUrl,          \* line 40: the submission whose blob it names (0: null)
  submissions,          \* calls of handleSubmit so far
  phase,                \* the await each call of handleSubmit is suspended at
  timeouts,             \* line 59: the timers of the call that are still scheduled
  elapsed,              \* timer periods (5000 ms) since the call scheduled them
  outcome,              \* the terminal status the call set (lines 100, 104)
  statusSetBy           \* the code that last called setStatus, and for which call

clientVars ==
  <<file, status, progress, downloadUrl, submissions, phase, timeouts, elapsed,
    outcome, statusSetBy>>

vars == <<serverVars, clientVars>>

\* --------------------------------------------------------------- promises
NoPromise == [st |-> "null", model |-> NULL, id |-> 0]
NoPipeline == [model |-> NULL, id |-> 0]
NoResponse == [status |-> 0, body |-> NULL]

\* pipeline(task, model): starts one construction and returns its promise.
pipeline(model) ==
  [st |-> "pending", model |-> model, id |-> ctorCalls[model] + 1]

\* The pipeline a resolved promise yields.
Resolved(promise) == [model |-> promise.model, id |-> promise.id]

\* getASR without the `if (!asrPipelinePromise)` guard.
getASRUnguarded == pipeline(ASR_MODEL)

\* getASR clearing a rejected promise: the next call constructs again.
getASRRetrying ==
  IF asrPipelinePromise.st \in {"null", "rejected"}
    THEN pipeline(ASR_MODEL)
    ELSE asrPipelinePromise

getASR ==
  IF asrPipelinePromise.st = "null" THEN pipeline(ASR_MODEL) ELSE asrPipelinePromise

getTranslator ==
  IF translationPipelinePromise.st = "null"
    THEN pipeline(TRANSLATION_MODEL)
    ELSE translationPipelinePromise

getTTS(language) ==
  IF ttsPipelines[language].st = "null"
    THEN pipeline(TTS_MODEL[language])
    ELSE ttsPipelines[language]

\* isSupportedLanguage written with the `in` operator instead of hasOwnProperty.
isSupportedLanguageIn(input) == input \in DOMAIN TTS_MODEL \cup ObjectPrototypeKeys

isSupportedLanguage(input) == input \in DOMAIN TTS_MODEL

\* JavaScript truthiness of the values a text or language field takes here.
Truthy(v) == v \notin {"", NULL, FALSE_}

\* formData.get('targetLanguage') ?? 'es'  (line 72)
TargetLanguageRaw(field) == IF field = NULL THEN "es" ELSE field

\* The transcript taken with String(asrResult.text): a missing text becomes the
\* text "undefined".
TranscriptTextStringified(result) ==
  IF result.text = NULL THEN "undefined" ELSE result.text

\* lines 108-113
TranscriptText(result) ==
  IF result.kind = "string" THEN result.text
  ELSE IF result.text # NULL THEN result.text
  ELSE ""

\* line 119
DetectedLanguage(result) ==
  IF result.kind = "object" THEN result.language ELSE FALSE_

\* The source language without the isSupportedLanguage(detectedLanguage) test.
SrcLangUnchecked(detected) ==
  IF Truthy(detected) THEN detected ELSE TRANSLATION_LANG["en"]

\* lines 125-128
SrcLang(detected) ==
  IF Truthy(detected) /\ isSupportedLanguage(detected)
    THEN TRANSLATION_LANG[detected]
    ELSE TRANSLATION_LANG["en"]

\* lines 135-141
TranslatedText(result) ==
  IF result.kind = "array-string" THEN result.text
  ELSE IF result.kind = "string" THEN result.text
  ELSE IF result.kind \in {"array-object", "object"}
    THEN (IF result.text = NULL THEN "" ELSE result.text)
  ELSE ""

\* --------------------------------------------- what the collaborators return
\* The values the form fields take.
AudioFields == {FILE, NULL, "not-a-file"}
TargetLanguageFields == {"es", "pt", "zz", "constructor", NULL, FILE}

\* Results of the ASR pipeline: a string, or an object with optional text and
\* language, or null.
AsrResults ==
  [kind : {"string"}, text : {"hola", ""}, language : {NULL}]
  \cup [kind : {"object"}, text : {"hola", "", NULL},
        language : {NULL, "fr", "ja", "constructor"}]
  \cup [kind : {"null"}, text : {NULL}, language : {NULL}]

\* Results of the translation pipeline: an array whose first element is a string
\* or an object, a string, an object, an empty array, or null.
TranslationResults ==
  [kind : {"array-string", "string"}, text : {"bonjour", ""}]
  \cup [kind : {"array-object", "object"}, text : {"bonjour", "", NULL}]
  \cup [kind : {"array-empty", "null"}, text : {NULL}]

\* Before the collaborator has answered.
NoAsrResult == [kind |-> "none", text |-> NULL, language |-> NULL]
NoTranslationResult == [kind |-> "none", text |-> NULL]

Init ==
  /\ pc = [r \in Req |-> "formData"]
  /\ formAudio = [r \in Req |-> NULL]
  /\ formTargetLanguage = [r \in Req |-> NULL]
  /\ targetLanguage = [r \in Req |-> NULL]
  /\ workspace = [r \in Req |-> 0]
  /\ dirs = {}
  /\ nextDir = 1
  /\ asrPipelinePromise = NoPromise
  /\ translationPipelinePromise = NoPromise
  /\ ttsPipelines = [l \in SupportedLanguage |-> NoPromise]
  /\ ctorCalls = [m \in Models |-> 0]
  /\ constructed = [r \in Req |-> {}]
  /\ asr = [r \in Req |-> NoPipeline]
  /\ translator = [r \in Req |-> NoPipeline]
  /\ tts = [r \in Req |-> NoPipeline]
  /\ detectedLanguage = [r \in Req |-> NULL]
  /\ srcLang = [r \in Req |-> NULL]
  /\ tgtLang = [r \in Req |-> NULL]
  /\ log = [r \in Req |-> <<>>]
  /\ thrown = [r \in Req |-> NULL]
  /\ completion = [r \in Req |-> NULL]
  /\ rmFailed = [r \in Req |-> FALSE]
  /\ response = [r \in Req |-> NoResponse]
  /\ asrResult = [r \in Req |-> NoAsrResult]
  /\ translationResult = [r \in Req |-> NoTranslationResult]
  /\ disconnectedAt = [r \in Req |-> NULL]
  /\ stagesAfterDisconnect = [r \in Req |-> 0]
  /\ file = NULL
  /\ status = "idle"
  /\ progress = 0
  /\ downloadUrl = 0
  /\ submissions = 0
  /\ phase = [s \in Sub |-> "unused"]
  /\ timeouts = [s \in Sub |-> {}]
  /\ elapsed = [s \in Sub |-> 0]
  /\ outcome = [s \in Sub |-> NULL]
  /\ statusSetBy = [by |-> "useState", sub |-> 0]

\* ------------------------------------------------------- steps of a request
\* The request issues `call` and suspends on it.
Issue(r, call) ==
  /\ pc' = [pc EXCEPT ![r] = call]
  /\ log' = [log EXCEPT ![r] = Append(@, call)]
  /\ stagesAfterDisconnect' =
       [stagesAfterDisconnect EXCEPT
          ![r] = IF disconnectedAt[r] # NULL /\ call \in StageSet THEN @ + 1 ELSE @]

\* POST returns `status`, `body`.
Return(r, code, body) ==
  /\ pc' = [pc EXCEPT ![r] = "done"]
  /\ response' = [response EXCEPT ![r] = [status |-> code, body |-> body]]

\* The outer catch (lines 179-182).
Catch(r) == Return(r, 500, "Failed to process audio")

\* An exception inside a try that has no finally block: the handler is left
\* without rm having been called.
ThrowPastCleanup(r, what) ==
  /\ thrown' = [thrown EXCEPT ![r] = what]
  /\ completion' = [completion EXCEPT ![r] = "throw"]
  /\ pc' = [pc EXCEPT ![r] = "done"]
  /\ UNCHANGED <<log, stagesAfterDisconnect>>

\* An exception inside the inner try: the finally block runs rm (line 177).
Throw(r, what) ==
  /\ thrown' = [thrown EXCEPT ![r] = what]
  /\ completion' = [completion EXCEPT ![r] = "throw"]
  /\ Issue(r, "rm")

\* An awaited call whose rejection is caught and ignored: the request goes on.
SettleSwallowing(r, env, call, next) ==
  /\ pc[r] = call
  /\ \/ /\ Issue(r, next)
        /\ UNCHANGED <<thrown, completion>>
     \/ /\ call \in env.rejecting
        /\ thrown' = [thrown EXCEPT ![r] = call]
        /\ Issue(r, next)
        /\ UNCHANGED completion
  /\ UNCHANGED <<formVars, fsVars, cacheVars, handleVars, textVars, rmFailed,
                 response, disconnectedAt>>
  /\ UNCHANGED clientVars

\* An awaited call with nothing to decide after it: it resolves and the request
\* issues `next`, or it rejects.
Settle(r, env, call, next) ==
  /\ pc[r] = call
  /\ \/ /\ Issue(r, next)
        /\ UNCHANGED <<thrown, completion>>
     \/ /\ call \in env.rejecting
        /\ Throw(r, call)
  /\ UNCHANGED <<formVars, fsVars, cacheVars, handleVars, textVars, rmFailed,
                 response, disconnectedAt>>
  /\ UNCHANGED clientVars

\* The synchronous bodies of getASR / getTranslator / getTTS as the request
\* calls them: the cache keeps the promise the getter returns.
CallGetASR(r) ==
  /\ asrPipelinePromise' = getASR
  /\ ctorCalls' =
       IF getASR # asrPipelinePromise
         THEN [ctorCalls EXCEPT ![ASR_MODEL] = @ + 1] ELSE ctorCalls
  /\ constructed' =
       IF getASR # asrPipelinePromise
         THEN [constructed EXCEPT ![r] = @ \cup {ASR_MODEL}] ELSE constructed
  /\ UNCHANGED <<translationPipelinePromise, ttsPipelines>>

CallGetTranslator(r) ==
  /\ translationPipelinePromise' = getTranslator
  /\ ctorCalls' =
       IF getTranslator # translationPipelinePromise
         THEN [ctorCalls EXCEPT ![TRANSLATION_MODEL] = @ + 1] ELSE ctorCalls
  /\ constructed' =
       IF getTranslator # translationPipelinePromise
         THEN [constructed EXCEPT ![r] = @ \cup {TRANSLATION_MODEL}] ELSE constructed
  /\ UNCHANGED <<asrPipelinePromise, ttsPipelines>>

CallGetTTS(r, language) ==
  /\ ttsPipelines' = [ttsPipelines EXCEPT ![language] = getTTS(language)]
  /\ ctorCalls' =
       IF getTTS(language) # ttsPipelines[language]
         THEN [ctorCalls EXCEPT ![TTS_MODEL[language]] = @ + 1] ELSE ctorCalls
  /\ constructed' =
       IF getTTS(language) # ttsPipelines[language]
         THEN [constructed EXCEPT ![r] = @ \cup {TTS_MODEL[language]}] ELSE constructed
  /\ UNCHANGED <<asrPipelinePromise, translationPipelinePromise>>

\* lines 70-84: the form is read and validated; a valid request asks for its
\* workspace.
FormData(r, env) ==
  /\ pc[r] = "formData"
  /\ \/ /\ "formData" \in env.rejecting
        /\ thrown' = [thrown EXCEPT ![r] = "formData"]
        /\ Catch(r)
        /\ UNCHANGED <<formVars, log, stagesAfterDisconnect>>
     \/ \E audio \in env.audioFields, language \in env.languageFields :
          /\ formAudio' = [formAudio EXCEPT ![r] = audio]
          /\ formTargetLanguage' = [formTargetLanguage EXCEPT ![r] = language]
          /\ IF audio # FILE
               THEN /\ Return(r, 400, "Missing audio file payload")
                    /\ UNCHANGED <<targetLanguage, log, stagesAfterDisconnect>>
             ELSE IF \/ TargetLanguageRaw(language) = FILE
                     \/ ~isSupportedLanguage(TargetLanguageRaw(language))
               THEN /\ Return(r, 400, "Unsupported target language")
                    /\ UNCHANGED <<targetLanguage, log, stagesAfterDisconnect>>
             ELSE /\ targetLanguage' =
                       [targetLanguage EXCEPT ![r] = TargetLanguageRaw(language)]
                  /\ Issue(r, "mkdtemp")
                  /\ UNCHANGED response
          /\ UNCHANGED thrown
  /\ UNCHANGED <<fsVars, cacheVars, handleVars, textVars, completion, rmFailed,
                 disconnectedAt>>
  /\ UNCHANGED clientVars

\* The workspace made with mkdir of one fixed path instead of mkdtemp: every
\* request gets the same directory.
MkdtempFixedName(r, env) ==
  /\ pc[r] = "mkdtemp"
  /\ \/ /\ workspace' = [workspace EXCEPT ![r] = 1]
        /\ dirs' = dirs \cup {1}
        /\ UNCHANGED nextDir
        /\ Issue(r, "arrayBuffer")
        /\ UNCHANGED <<thrown, response>>
     \/ /\ "mkdtemp" \in env.rejecting
        /\ thrown' = [thrown EXCEPT ![r] = "mkdtemp"]
        /\ Catch(r)
        /\ UNCHANGED <<fsVars, log, stagesAfterDisconnect>>
  /\ UNCHANGED <<formVars, cacheVars, handleVars, textVars, completion, rmFailed,
                 disconnectedAt>>
  /\ UNCHANGED clientVars

\* mkdtemp called inside the try block: its rejection reaches the finally
\* block, which calls rm.
MkdtempInsideTry(r, env) ==
  /\ pc[r] = "mkdtemp"
  /\ \/ /\ workspace' = [workspace EXCEPT ![r] = nextDir]
        /\ dirs' = dirs \cup {nextDir}
        /\ nextDir' = nextDir + 1
        /\ Issue(r, "arrayBuffer")
        /\ UNCHANGED <<thrown, completion>>
     \/ /\ "mkdtemp" \in env.rejecting
        /\ Throw(r, "mkdtemp")
        /\ UNCHANGED fsVars
  /\ UNCHANGED <<formVars, cacheVars, handleVars, textVars, rmFailed, response,
                 disconnectedAt>>
  /\ UNCHANGED clientVars

\* line 84: mkdtemp creates a directory no other request has, or rejects.
Mkdtemp(r, env) ==
  /\ pc[r] = "mkdtemp"
  /\ \/ /\ workspace' = [workspace EXCEPT ![r] = nextDir]
        /\ dirs' = dirs \cup {nextDir}
        /\ nextDir' = nextDir + 1
        /\ Issue(r, "arrayBuffer")
        /\ UNCHANGED <<thrown, response>>
     \/ /\ "mkdtemp" \in env.rejecting
        /\ thrown' = [thrown EXCEPT ![r] = "mkdtemp"]
        /\ Catch(r)
        /\ UNCHANGED <<fsVars, log, stagesAfterDisconnect>>
  /\ UNCHANGED <<formVars, cacheVars, handleVars, textVars, completion, rmFailed,
                 disconnectedAt>>
  /\ UNCHANGED clientVars

\* line 95
ArrayBuffer(r, env) == Settle(r, env, "arrayBuffer", "writeFile:original")

\* line 96
WriteOriginal(r, env) == Settle(r, env, "writeFile:original", "convertToWav")

\* line 98
ConvertToWav(r, env) == Settle(r, env, "convertToWav", "createInstrumental")

\* createInstrumental started without its promise being awaited before the
\* voice branch goes on: its rejection does not stop the request.
CreateInstrumentalDetached(r, env) ==
  /\ pc[r] = "createInstrumental"
  /\ CallGetASR(r)
  /\ Issue(r, "getASR")
  /\ \/ UNCHANGED thrown
     \/ /\ "createInstrumental" \in env.rejecting
        /\ thrown' = [thrown EXCEPT ![r] = "createInstrumental"]
  /\ UNCHANGED <<formVars, fsVars, handleVars, textVars, completion, rmFailed,
                 response, disconnectedAt>>
  /\ UNCHANGED clientVars

\* lines 99-101: after the instrumental is written the request calls getASR()
\* and awaits the promise.
CreateInstrumental(r, env) ==
  /\ pc[r] = "createInstrumental"
  /\ \/ /\ CallGetASR(r)
        /\ Issue(r, "getASR")
        /\ UNCHANGED <<thrown, completion>>
     \/ /\ "createInstrumental" \in env.rejecting
        /\ Throw(r, "createInstrumental")
        /\ UNCHANGED cacheVars
  /\ UNCHANGED <<formVars, fsVars, handleVars, textVars, rmFailed, response,
                 disconnectedAt>>
  /\ UNCHANGED clientVars

\* lines 101-102: the ASR pipeline promise settles for this request.
AwaitASR(r) ==
  /\ pc[r] = "getASR"
  /\ \/ /\ asrPipelinePromise.st = "resolved"
        /\ asr' = [asr EXCEPT ![r] = Resolved(asrPipelinePromise)]
        /\ Issue(r, "asr")
        /\ UNCHANGED <<thrown, completion>>
     \/ /\ asrPipelinePromise.st = "rejected"
        /\ Throw(r, "getASR")
        /\ UNCHANGED asr
  /\ UNCHANGED <<formVars, fsVars, cacheVars, translator, tts, textVars, rmFailed,
                 response, disconnectedAt>>
  /\ UNCHANGED clientVars

\* The ASR call wrapped in a retry: a rejected call is issued once more.
AsrRetrying(r, env) ==
  /\ pc[r] = "asr"
  /\ \/ /\ "asr" \in env.rejecting
        /\ IF Cardinality({i \in 1 .. Len(log[r]) : log[r][i] = "asr"}) < 2
             THEN Issue(r, "asr") /\ UNCHANGED <<thrown, completion>>
             ELSE Throw(r, "asr")
        /\ UNCHANGED <<cacheVars, asrResult, detectedLanguage>>
     \/ \E result \in env.asrResults :
          /\ asrResult' = [asrResult EXCEPT ![r] = result]
          /\ IF ~Truthy(TranscriptText(result))
               THEN /\ Throw(r, "Unable to derive transcript from audio.")
                    /\ UNCHANGED <<cacheVars, detectedLanguage>>
             ELSE /\ detectedLanguage' =
                       [detectedLanguage EXCEPT ![r] = DetectedLanguage(result)]
                  /\ CallGetTranslator(r)
                  /\ Issue(r, "getTranslator")
                  /\ UNCHANGED <<thrown, completion>>
  /\ UNCHANGED <<formVars, fsVars, handleVars, translationResult, srcLang, tgtLang,
                 rmFailed, response, disconnectedAt>>
  /\ UNCHANGED clientVars

\* lines 102-123: the transcript is taken from the ASR result; an empty one
\* throws; otherwise the request calls getTranslator() and awaits it.
Asr(r, env) ==
  /\ pc[r] = "asr"
  /\ \/ /\ "asr" \in env.rejecting
        /\ Throw(r, "asr")
        /\ UNCHANGED <<cacheVars, asrResult, detectedLanguage>>
     \/ \E result \in env.asrResults :
          /\ asrResult' = [asrResult EXCEPT ![r] = result]
          /\ IF result.kind = "null"
               THEN /\ Throw(r, "TypeError")
                    /\ UNCHANGED <<cacheVars, detectedLanguage>>
             ELSE IF ~Truthy(TranscriptText(result))
               THEN /\ Throw(r, "Unable to derive transcript from audio.")
                    /\ UNCHANGED <<cacheVars, detectedLanguage>>
             ELSE /\ detectedLanguage' =
                       [detectedLanguage EXCEPT ![r] = DetectedLanguage(result)]
                  /\ CallGetTranslator(r)
                  /\ Issue(r, "getTranslator")
                  /\ UNCHANGED <<thrown, completion>>
  /\ UNCHANGED <<formVars, fsVars, handleVars, translationResult, srcLang, tgtLang,
                 rmFailed, response, disconnectedAt>>
  /\ UNCHANGED clientVars

\* lines 123-129: the translator is called with the source and target languages.
AwaitTranslator(r) ==
  /\ pc[r] = "getTranslator"
  /\ \/ /\ translationPipelinePromise.st = "resolved"
        /\ translator' = [translator EXCEPT ![r] = Resolved(translationPipelinePromise)]
        /\ srcLang' = [srcLang EXCEPT ![r] = SrcLang(detectedLanguage[r])]
        /\ tgtLang' = [tgtLang EXCEPT ![r] = TRANSLATION_LANG[targetLanguage[r]]]
        /\ Issue(r, "translator")
        /\ UNCHANGED <<thrown, completion>>
     \/ /\ translationPipelinePromise.st = "rejected"
        /\ Throw(r, "getTranslator")
        /\ UNCHANGED <<translator, srcLang, tgtLang>>
  /\ UNCHANGED <<formVars, fsVars, cacheVars, asr, tts, asrResult, detectedLanguage,
                 translationResult, rmFailed, response, disconnectedAt>>
  /\ UNCHANGED clientVars

\* lines 124-147: the translated text is taken from the result; an empty one
\* throws; otherwise the request calls getTTS(targetLanguage) and awaits it.
Translate(r, env) ==
  /\ pc[r] = "translator"
  /\ \/ /\ "translator" \in env.rejecting
        /\ Throw(r, "translator")
        /\ UNCHANGED <<cacheVars, translationResult>>
     \/ \E result \in env.translationResults :
          /\ translationResult' = [translationResult EXCEPT ![r] = result]
          /\ IF ~Truthy(TranslatedText(result))
               THEN /\ Throw(r, "Translation failed to produce output.")
                    /\ UNCHANGED cacheVars
             ELSE /\ CallGetTTS(r, targetLanguage[r])
                  /\ Issue(r, "getTTS")
                  /\ UNCHANGED <<thrown, completion>>
  /\ UNCHANGED <<formVars, fsVars, handleVars, asrResult, detectedLanguage, srcLang,
                 tgtLang, rmFailed, response, disconnectedAt>>
  /\ UNCHANGED clientVars

\* lines 147-148: the TTS pipeline of the target language is called.
AwaitTTS(r) ==
  /\ pc[r] = "getTTS"
  /\ \/ /\ ttsPipelines[targetLanguage[r]].st = "resolved"
        /\ tts' = [tts EXCEPT ![r] = Resolved(ttsPipelines[targetLanguage[r]])]
        /\ Issue(r, "tts")
        /\ UNCHANGED <<thrown, completion>>
     \/ /\ ttsPipelines[targetLanguage[r]].st = "rejected"
        /\ Throw(r, "getTTS")
        /\ UNCHANGED tts
  /\ UNCHANGED <<formVars, fsVars, cacheVars, asr, translator, textVars, rmFailed,
                 response, disconnectedAt>>
  /\ UNCHANGED clientVars

\* lines 148-158
Tts(r, env) == Settle(r, env, "tts", "WavEncoder.encode")

\* line 158
WavEncode(r, env) == Settle(r, env, "WavEncoder.encode", "writeFile:voice")

\* line 163
WriteVoice(r, env) == Settle(r, env, "writeFile:voice", "normalizeVoice")

\* The voice is normalised and the mix is read without mixTracks having run.
NormalizeVoiceThenRead(r, env) == Settle(r, env, "normalizeVoice", "readFile")

\* line 164
NormalizeVoice(r, env) == Settle(r, env, "normalizeVoice", "mixTracks")

\* The response built from the path of the mix instead of its bytes: the
\* handler returns after mixTracks without readFile.
MixTracksThenRm(r, env) ==
  /\ pc[r] = "mixTracks"
  /\ \/ /\ completion' = [completion EXCEPT ![r] = "return"]
        /\ Issue(r, "rm")
        /\ UNCHANGED thrown
     \/ /\ "mixTracks" \in env.rejecting
        /\ Throw(r, "mixTracks")
  /\ UNCHANGED <<formVars, fsVars, cacheVars, handleVars, textVars, rmFailed,
                 response, disconnectedAt>>
  /\ UNCHANGED clientVars

\* line 166
MixTracks(r, env) == Settle(r, env, "mixTracks", "readFile")

\* lines 168-177: the mix is read, the response is built, and the finally block
\* runs rm before the return completes.
ReadMix(r, env) ==
  /\ pc[r] = "readFile"
  /\ \/ /\ completion' = [completion EXCEPT ![r] = "return"]
        /\ Issue(r, "rm")
        /\ UNCHANGED thrown
     \/ /\ "readFile" \in env.rejecting
        /\ Throw(r, "readFile")
  /\ UNCHANGED <<formVars, fsVars, cacheVars, handleVars, textVars, rmFailed,
                 response, disconnectedAt>>
  /\ UNCHANGED clientVars

\* rm placed after the try block instead of in a finally: the workspace is
\* deleted only when the try block completed normally.
RmOnSuccessOnly(r, env) ==
  /\ pc[r] = "rm"
  /\ \/ /\ IF completion[r] = "return"
             THEN dirs' = dirs \ {workspace[r]} /\ Return(r, 200, "mix.mp3")
             ELSE UNCHANGED dirs /\ Catch(r)
        /\ UNCHANGED rmFailed
     \/ /\ "rm" \in env.rejecting
        /\ rmFailed' = [rmFailed EXCEPT ![r] = TRUE]
        /\ Catch(r)
        /\ UNCHANGED dirs
  /\ UNCHANGED <<formVars, workspace, nextDir, cacheVars, handleVars, textVars, log,
                 thrown, completion, disconnectedAt, stagesAfterDisconnect>>
  /\ UNCHANGED clientVars

\* lines 176-182: rm settles.  Resolved, the pending completion of the try block
\* goes on: the response is returned, or the exception reaches the outer catch.
\* Rejected, rm's exception replaces that completion and reaches the outer catch.
Rm(r, env) ==
  /\ pc[r] = "rm"
  /\ \/ /\ dirs' = dirs \ {workspace[r]}
        /\ IF completion[r] = "return"
             THEN Return(r, 200, "mix.mp3")
             ELSE Catch(r)
        /\ UNCHANGED rmFailed
     \/ /\ "rm" \in env.rejecting
        /\ rmFailed' = [rmFailed EXCEPT ![r] = TRUE]
        /\ Catch(r)
        /\ UNCHANGED dirs
  /\ UNCHANGED <<formVars, workspace, nextDir, cacheVars, handleVars, textVars, log,
                 thrown, completion, disconnectedAt, stagesAfterDisconnect>>
  /\ UNCHANGED clientVars

\* --------------------------------------------------------- the environment
\* A construction started by pipeline() finishes or fails.
AsrPipelineSettles ==
  /\ asrPipelinePromise.st = "pending"
  /\ \E st \in {"resolved", "rejected"} :
       asrPipelinePromise' = [asrPipelinePromise EXCEPT !.st = st]
  /\ UNCHANGED <<pc, formVars, fsVars, translationPipelinePromise, ttsPipelines,
                 ctorCalls, constructed, handleVars, textVars, log, thrown,
                 completion, rmFailed, response, disconnectedAt,
                 stagesAfterDisconnect>>
  /\ UNCHANGED clientVars

TranslationPipelineSettles ==
  /\ translationPipelinePromise.st = "pending"
  /\ \E st \in {"resolved", "rejected"} :
       translationPipelinePromise' = [translationPipelinePromise EXCEPT !.st = st]
  /\ UNCHANGED <<pc, formVars, fsVars, asrPipelinePromise, ttsPipelines,
                 ctorCalls, constructed, handleVars, textVars, log, thrown,
                 completion, rmFailed, response, disconnectedAt,
                 stagesAfterDisconnect>>
  /\ UNCHANGED clientVars

TtsPipelineSettles ==
  \E language \in SupportedLanguage :
    /\ ttsPipelines[language].st = "pending"
    /\ \E st \in {"resolved", "rejected"} :
         ttsPipelines' = [ttsPipelines EXCEPT ![language].st = st]
    /\ UNCHANGED <<pc, formVars, fsVars, asrPipelinePromise,
                   translationPipelinePromise, ctorCalls, constructed, handleVars,
                   textVars, log, thrown, completion, rmFailed, response,
                   disconnectedAt, stagesAfterDisconnect>>
    /\ UNCHANGED clientVars

\* The client of a running request goes away.  POST never reads request.signal.
ClientDisconnect(r) ==
  /\ pc[r] # "done"
  /\ disconnectedAt[r] = NULL
  /\ disconnectedAt' = [disconnectedAt EXCEPT ![r] = pc[r]]
  /\ UNCHANGED <<pc, formVars, fsVars, cacheVars, handleVars, textVars, log,
                 thrown, completion, rmFailed, response, stagesAfterDisconnect>>
  /\ UNCHANGED clientVars

\* ------------------------------------------------------------ specifications
\* The awaited calls of POST; each of them can reject.
Calls ==
  {"formData", "mkdtemp", "arrayBuffer", "writeFile:original", "convertToWav",
   "createInstrumental", "asr", "translator", "tts", "WavEncoder.encode",
   "writeFile:voice", "normalizeVoice", "mixTracks", "readFile", "rm"}

\* The steps of request r in an environment: the form fields clients send, the
\* results the collaborators return, and the calls that can reject.
Request(r, env) ==
  \/ FormData(r, env)
  \/ Mkdtemp(r, env)
  \/ ArrayBuffer(r, env)
  \/ WriteOriginal(r, env)
  \/ ConvertToWav(r, env)
  \/ CreateInstrumental(r, env)
  \/ AwaitASR(r)
  \/ Asr(r, env)
  \/ AwaitTranslator(r)
  \/ Translate(r, env)
  \/ AwaitTTS(r)
  \/ Tts(r, env)
  \/ WavEncode(r, env)
  \/ WriteVoice(r, env)
  \/ NormalizeVoice(r, env)
  \/ MixTracks(r, env)
  \/ ReadMix(r, env)
  \/ Rm(r, env)

PipelineSettles ==
  \/ AsrPipelineSettles
  \/ TranslationPipelineSettles
  \/ TtsPipelineSettles

\* One request, every form input, every collaborator result, every failure.
Solo == {1}

AnyEnv ==
  [audioFields |-> AudioFields,
   languageFields |-> TargetLanguageFields,
   asrResults |-> AsrResults,
   translationResults |-> TranslationResults,
   rejecting |-> Calls]

Next ==
  \/ \E r \in Solo : Request(r, AnyEnv) \/ ClientDisconnect(r)
  \/ PipelineSettles

Spec == Init /\ [][Next]_vars

\* Concurrent requests on one process.  Every request carries an audio file and
\* a supported language; constructions, collaborators, workspace creation and
\* workspace deletion can fail, and the collaborators' texts are usable, so that
\* what is explored is the interleaving of the requests.
ConcEnv ==
  [audioFields |-> {FILE},
   languageFields |-> {"es"},
   asrResults |-> [kind : {"object"}, text : {"hola"}, language : {"fr"}],
   translationResults |-> [kind : {"array-object"}, text : {"bonjour"}],
   rejecting |-> {"mkdtemp", "asr", "translator", "tts", "rm"}]

NextConc ==
  \/ \E r \in Req : Request(r, ConcEnv)
  \/ PipelineSettles

SpecConc == Init /\ [][NextConc]_vars

\* ------------------------------------------------------ the page (page.tsx)
\* lines 53-58
timeline == <<"transcribing", "translating", "synthesizing", "mixing">>

\* line 162: disabled={!file || status === 'uploading'}
SubmitDisabled == file = NULL \/ status = "uploading"

\* A call of handleSubmit that is suspended at an await of its try block.
InFlight(s) == phase[s] \in {"fetch", "text", "read"}

\* The timers of a call whose delay, (index + 1) * 5000 ms, has passed.
Due(s) == {i \in timeouts[s] : i <= elapsed[s]}

\* lines 127-133: onChange of the file input; the dialog can return no file.
SelectFile ==
  /\ \E selected \in {NULL, FILE} : file' = selected
  /\ status' = "idle"
  /\ statusSetBy' = [by |-> "onChange", sub |-> 0]
  /\ progress' = 0
  /\ downloadUrl' = 0
  /\ UNCHANGED <<submissions, phase, timeouts, elapsed, outcome>>
  /\ UNCHANGED serverVars

\* lines 42-76: the form is submitted, which the button allows when it is not
\* disabled; file is then set, so the alert of lines 44-47 is not reached.  The
\* handler sets the state, schedules the four timers and awaits fetch.
HandleSubmit ==
  /\ ~SubmitDisabled
  /\ submissions < MaxSubmissions
  /\ submissions' = submissions + 1
  /\ status' = "uploading"
  /\ statusSetBy' = [by |-> "handleSubmit", sub |-> submissions + 1]
  /\ progress' = 1
  /\ downloadUrl' = 0
  /\ timeouts' = [timeouts EXCEPT ![submissions + 1] = 1 .. Len(timeline)]
  /\ elapsed' = [elapsed EXCEPT ![submissions + 1] = 0]
  /\ phase' = [phase EXCEPT ![submissions + 1] = "fetch"]
  /\ UNCHANGED <<file, outcome>>
  /\ UNCHANGED serverVars

\* 5000 ms pass; the timers that are due run before more time passes.
Tick ==
  /\ \E s \in Sub : timeouts[s] # {}
  /\ \A s \in Sub : Due(s) = {}
  /\ elapsed' = [s \in Sub |-> IF timeouts[s] # {} THEN elapsed[s] + 1 ELSE elapsed[s]]
  /\ UNCHANGED <<file, status, statusSetBy, progress, downloadUrl, submissions,
                 phase, timeouts, outcome>>
  /\ UNCHANGED serverVars

\* lines 61-64: the callback of timer index i - 1 of call s runs.  Timers run
\* in the order they fall due, those of an earlier call first.
TimerFires(s, i) ==
  /\ i \in Due(s)
  /\ \A s2 \in Sub : s2 < s => Due(s2) = {}
  /\ status' = timeline[i]
  /\ statusSetBy' = [by |-> "timeout", sub |-> s]
  /\ progress' = 2 * i
  /\ timeouts' = [timeouts EXCEPT ![s] = @ \ {i}]
  /\ UNCHANGED <<file, downloadUrl, submissions, phase, elapsed, outcome>>
  /\ UNCHANGED serverVars

\* handleSubmit without the finally block: the timers stay scheduled.
FinallyWithoutClear(s) == UNCHANGED timeouts

\* lines 105-107: timeouts.forEach(clearTimeout)
Finally(s) == timeouts' = [timeouts EXCEPT ![s] = {}]

\* lines 97-101, then finally.
Completed(s) ==
  /\ downloadUrl' = s
  /\ status' = "completed"
  /\ statusSetBy' = [by |-> "try", sub |-> s]
  /\ progress' = 10
  /\ outcome' = [outcome EXCEPT ![s] = "completed"]
  /\ phase' = [phase EXCEPT ![s] = "settled"]
  /\ Finally(s)

\* lines 102-104, then finally.
Failed(s) ==
  /\ status' = "error"
  /\ statusSetBy' = [by |-> "catch", sub |-> s]
  /\ outcome' = [outcome EXCEPT ![s] = "error"]
  /\ phase' = [phase EXCEPT ![s] = "settled"]
  /\ Finally(s)
  /\ UNCHANGED <<progress, downloadUrl>>

\* lines 73-86: fetch resolves with an ok response whose body has a reader,
\* with a response that is not ok, with an ok response without a body, or
\* rejects.
FetchSettles(s) ==
  /\ phase[s] = "fetch"
  /\ \/ /\ phase' = [phase EXCEPT ![s] = "read"]
        /\ UNCHANGED <<status, statusSetBy, progress, downloadUrl, timeouts, outcome>>
     \/ /\ phase' = [phase EXCEPT ![s] = "text"]
        /\ UNCHANGED <<status, statusSetBy, progress, downloadUrl, timeouts, outcome>>
     \/ Failed(s)
  /\ UNCHANGED <<file, submissions, elapsed>>
  /\ UNCHANGED serverVars

\* line 79: response.text() settles; either way the try block throws.
TextSettles(s) ==
  /\ phase[s] = "text"
  /\ Failed(s)
  /\ UNCHANGED <<file, submissions, elapsed>>
  /\ UNCHANGED serverVars

\* lines 88-101: reader.read() reports the end of the stream, or rejects.  A
\* read that returns a chunk leaves the call at the same await.
ReadSettles(s) ==
  /\ phase[s] = "read"
  /\ \/ Completed(s)
     \/ Failed(s)
  /\ UNCHANGED <<file, submissions, elapsed>>
  /\ UNCHANGED serverVars

NextClient ==
  \/ SelectFile
  \/ HandleSubmit
  \/ Tick
  \/ \E s \in Sub : \E i \in 1 .. Len(timeline) : TimerFires(s, i)
  \/ \E s \in Sub : FetchSettles(s) \/ TextSettles(s) \/ ReadSettles(s)

SpecClient == Init /\ [][NextClient]_vars

\* ==================================================================== claims
Done(r) == pc[r] = "done"

Range(seq) == {seq[i] : i \in 1 .. Len(seq)}

Count(seq, x) == Cardinality({i \in 1 .. Len(seq) : seq[i] = x})

IsPrefix(a, b) == Len(a) <= Len(b) /\ a = SubSeq(b, 1, Len(a))

\* The stages a request has started, in the order it started them.
StageLog(r) == SelectSeq(log[r], LAMBDA call : call \in StageSet)

\* The awaits of POST after the form is read, in program order (lines 84-168).
CallOrder ==
  <<"mkdtemp", "arrayBuffer", "writeFile:original", "convertToWav",
    "createInstrumental", "getASR", "asr", "getTranslator", "translator", "getTTS",
    "tts", "WavEncoder.encode", "writeFile:voice", "normalizeVoice", "mixTracks",
    "readFile">>

\* The await at which an exception was raised.
FailedCall(what) ==
  IF what \in {"TypeError", "Unable to derive transcript from audio."} THEN "asr"
  ELSE IF what = "Translation failed to produce output." THEN "translator"
  ELSE what

\* Its place in the program order (0: reading the form).
CallIndex(call) ==
  IF call = "formData" THEN 0
  ELSE CHOOSE i \in 1 .. Len(CallOrder) : CallOrder[i] = call

TtsModels == {TTS_MODEL[l] : l \in SupportedLanguage}

\* The target language the client supplied is missing from the supported set.
UnsupportedSupplied(r) ==
  formTargetLanguage[r] \notin SupportedLanguage \cup {NULL}

\* The request was valid: an audio file and a supported (or absent) language.
ValidRequest(r) ==
  /\ formAudio[r] = FILE
  /\ formTargetLanguage[r] \in SupportedLanguage \cup {NULL}

\* No stage, collaborator or pipeline construction has been touched by r.
NothingProcessed(r) ==
  /\ workspace[r] = 0
  /\ log[r] = <<>>
  /\ constructed[r] = {}
  /\ asr[r] = NoPipeline /\ translator[r] = NoPipeline /\ tts[r] = NoPipeline

\* ---------------------------------------------------------------------- C1
\* C1 as stated: whenever POST has returned for a request that acquired a
\* workspace, the workspace directory no longer exists.
C1_Original ==
  \A r \in Req : Done(r) /\ workspace[r] # 0 => workspace[r] \notin dirs

\* C1 (amended): for every request that acquired a workspace and every outcome
\* of the calls that follow, POST has awaited rm of the workspace exactly once
\* when it returns, and the directory no longer exists at that moment unless
\* that rm itself rejected.
C1_WorkspaceGoneUnlessRmFailed ==
  \A r \in Req :
    Done(r) /\ workspace[r] # 0 =>
      /\ Count(log[r], "rm") = 1
      /\ rmFailed[r] \/ workspace[r] \notin dirs

C1_Witness ==
  \E r \in Req :
    /\ Done(r) /\ workspace[r] # 0 /\ workspace[r] \notin dirs
    /\ thrown[r] = "normalizeVoice"

\* ---------------------------------------------------------------------- C2
\* C2 as stated: a request whose target language is not supported gets the
\* response 400 'Unsupported target language' and nothing is processed.
C2_Original ==
  \A r \in Req :
    UnsupportedSupplied(r) =>
      /\ response[r] = [status |-> 400, body |-> "Unsupported target language"]
      /\ NothingProcessed(r)

\* C2 (amended): a request whose target language is not supported gets a client
\* error, 'Unsupported target language' when it carries an audio file and
\* 'Missing audio file payload' when it does not; no workspace is created, no
\* stage is run, no pipeline is constructed and no collaborator is invoked.
C2_UnsupportedLanguageRejected ==
  \A r \in Req :
    UnsupportedSupplied(r) =>
      /\ Done(r)
      /\ response[r].status = 400
      /\ response[r].body =
           IF formAudio[r] = FILE THEN "Unsupported target language"
                                  ELSE "Missing audio file payload"
      /\ NothingProcessed(r)

C2_Witness ==
  \E r \in Req :
    /\ formAudio[r] = FILE /\ formTargetLanguage[r] = "constructor"
    /\ response[r] = [status |-> 400, body |-> "Unsupported target language"]

\* ---------------------------------------------------------------------- C3
\* C3: the stages a request starts are always an initial part of Normalizing,
\* Separating, Transcribing, Translating, Synthesizing, PostProcessingVoice,
\* Mixing; and a valid request none of whose calls failed has, when POST
\* returns, run all seven in that order, each once, and got the 200 response
\* carrying the mix.
C3_StagesInOrderThenCompleted ==
  \A r \in Req :
    /\ IsPrefix(StageLog(r), Stages)
    /\ Done(r) /\ ValidRequest(r) /\ thrown[r] = NULL /\ ~rmFailed[r] =>
         /\ StageLog(r) = Stages
         /\ response[r] = [status |-> 200, body |-> "mix.mp3"]

C3_Witness ==
  \E r \in Req :
    /\ Done(r) /\ formTargetLanguage[r] = "pt" /\ targetLanguage[r] = "pt"
    /\ StageLog(r) = Stages
    /\ response[r].status = 200

\* ---------------------------------------------------------------------- C4
\* C4: once a call of a request has thrown, the request has issued nothing after
\* the failed call except the rm of its workspace, it never gets the 200
\* response, and when POST returns the response is the 500 one and the
\* workspace is gone unless rm itself rejected.
C4_FailureGoesStraightToFailed ==
  \A r \in Req :
    thrown[r] # NULL =>
      /\ log[r] =
           SubSeq(CallOrder, 1, CallIndex(FailedCall(thrown[r])))
             \o (IF workspace[r] = 0 THEN <<>> ELSE <<"rm">>)
      /\ response[r].status # 200
      /\ Done(r) =>
           /\ response[r] = [status |-> 500, body |-> "Failed to process audio"]
           /\ workspace[r] # 0 => rmFailed[r] \/ workspace[r] \notin dirs

C4_Witness ==
  \E r \in Req :
    /\ Done(r) /\ thrown[r] = "convertToWav"
    /\ log[r] = <<"mkdtemp", "arrayBuffer", "writeFile:original", "convertToWav", "rm">>
    /\ workspace[r] \notin dirs
    /\ response[r].status = 500

\* ---------------------------------------------------------------------- C5
\* C5: in every interleaving of the requests, pipeline() is called at most once
\* per model and exactly once as soon as a request has asked for the model;
\* every request that obtained a pipeline obtained the one that construction
\* produced, and a request fails at the await of a pipeline only if that one
\* construction failed.
C5_SingleFlightConstruction ==
  /\ \A m \in Models : ctorCalls[m] <= 1
  /\ \A r \in Req :
       /\ "getASR" \in Range(log[r]) =>
            ctorCalls[ASR_MODEL] = 1 /\ asrPipelinePromise.id = 1
       /\ "getTranslator" \in Range(log[r]) =>
            ctorCalls[TRANSLATION_MODEL] = 1 /\ translationPipelinePromise.id = 1
       /\ "getTTS" \in Range(log[r]) =>
            /\ ctorCalls[TTS_MODEL[targetLanguage[r]]] = 1
            /\ ttsPipelines[targetLanguage[r]].id = 1
       /\ asr[r] # NoPipeline =>
            /\ asr[r] = [model |-> ASR_MODEL, id |-> 1]
            /\ asrPipelinePromise.st = "resolved"
       /\ translator[r] # NoPipeline =>
            /\ translator[r] = [model |-> TRANSLATION_MODEL, id |-> 1]
            /\ translationPipelinePromise.st = "resolved"
       /\ tts[r] # NoPipeline =>
            /\ tts[r] = [model |-> TTS_MODEL[targetLanguage[r]], id |-> 1]
            /\ ttsPipelines[targetLanguage[r]].st = "resolved"
       /\ thrown[r] = "getASR" => asrPipelinePromise.st = "rejected"
       /\ thrown[r] = "getTranslator" => translationPipelinePromise.st = "rejected"
       /\ thrown[r] = "getTTS" => ttsPipelines[targetLanguage[r]].st = "rejected"

\* Every request is running inference on the one ASR pipeline at the same time,
\* and a single request constructed it.
C5_Witness ==
  /\ \A r \in Req : pc[r] = "asr" /\ asr[r] = [model |-> ASR_MODEL, id |-> 1]
  /\ ctorCalls[ASR_MODEL] = 1
  /\ Cardinality({r \in Req : ASR_MODEL \in constructed[r]}) = 1
  /\ Cardinality(Req) >= 2

\* ---------------------------------------------------------------------- C6
\* C6 as stated: a rejected rm does not change what the caller receives: the 200
\* response with the mix if the try block was returning it, the 500 response if
\* a stage had failed.
C6_CleanupFailureNotEscalated ==
  \A r \in Req :
    Done(r) /\ rmFailed[r] =>
      /\ completion[r] = "return" =>
           response[r] = [status |-> 200, body |-> "mix.mp3"]
      /\ completion[r] = "throw" =>
           response[r] = [status |-> 500, body |-> "Failed to process audio"]

\* ---------------------------------------------------------------------- C7
\* C7 as stated: after the client of a request that is in a stage has gone away,
\* at most the stage at the next boundary is still started, and the workspace
\* is released.
C7_DisconnectStopsStages ==
  \A r \in Req :
    disconnectedAt[r] \in StageSet =>
      /\ stagesAfterDisconnect[r] <= 1
      /\ Done(r) /\ workspace[r] # 0 => rmFailed[r] \/ workspace[r] \notin dirs

\* ---------------------------------------------------------------------- C8
\* C8 as stated: a request rejected for bad input (unreadable form, missing
\* audio file, unsupported language) gets a 400 response with a specific message
\* before anything is processed; a request in which an internal call failed gets
\* the 500 response with the one generic body.
C8_FailuresClassifiedByCause ==
  \A r \in Req :
    Done(r) =>
      /\ (thrown[r] = "formData" \/ formAudio[r] # FILE \/ UnsupportedSupplied(r)) =>
           /\ response[r].status = 400
           /\ response[r].body \in
                {"Missing audio file payload", "Unsupported target language"}
           /\ NothingProcessed(r)
      /\ (thrown[r] \notin {NULL, "formData"}) =>
           response[r] = [status |-> 500, body |-> "Failed to process audio"]

\* ---------------------------------------------------------------------- C9
AsrTextMissing(result) == result.kind = "null" \/ result.text \in {"", NULL}

TranslationTextMissing(result) ==
  result.kind \in {"array-empty", "null"} \/ result.text \in {"", NULL}

\* C9: an ASR result with empty or missing text makes the request fail without
\* the translator or the TTS being awaited, obtained, invoked or constructed by
\* it; a translation result with empty or missing text makes the request fail
\* without the TTS being awaited, obtained, invoked or constructed by it.
C9_EmptyTextIsFailure ==
  \A r \in Req :
    /\ (asrResult[r] # NoAsrResult /\ AsrTextMissing(asrResult[r])) =>
         /\ thrown[r] # NULL
         /\ response[r].status \in {0, 500}
         /\ Range(log[r]) \cap {"getTranslator", "translator", "getTTS", "tts"} = {}
         /\ translator[r] = NoPipeline /\ tts[r] = NoPipeline
         /\ constructed[r] \cap ({TRANSLATION_MODEL} \cup TtsModels) = {}
    /\ (translationResult[r] # NoTranslationResult
          /\ TranslationTextMissing(translationResult[r])) =>
         /\ thrown[r] # NULL
         /\ response[r].status \in {0, 500}
         /\ Range(log[r]) \cap {"getTTS", "tts"} = {}
         /\ tts[r] = NoPipeline
         /\ constructed[r] \cap TtsModels = {}

C9_Witness ==
  \E r \in Req :
    /\ asrResult[r] = [kind |-> "object", text |-> NULL, language |-> "fr"]
    /\ Done(r) /\ response[r].status = 500
    /\ "translator" \notin Range(log[r])

\* --------------------------------------------------------------------- C10
\* The language the ASR reported, if it reported one.
AsrLanguage(r) ==
  IF asrResult[r].kind = "object" THEN asrResult[r].language ELSE NULL

\* C10 as stated: the translator's source language is the detected language if
\* supported and 'en' otherwise, and the target language given to the
\* translator and the TTS is exactly the code the client supplied.
C10_Original ==
  \A r \in Req :
    "translator" \in Range(log[r]) =>
      /\ srcLang[r] =
           IF AsrLanguage(r) \in SupportedLanguage THEN AsrLanguage(r) ELSE "en"
      /\ tgtLang[r] = formTargetLanguage[r]
      /\ tgtLang[r] \in SupportedLanguage
      /\ "tts" \in Range(log[r]) => tts[r].model = TTS_MODEL[tgtLang[r]]

\* C10 (amended): the translator's source language is the detected language if
\* supported and 'en' otherwise; the target language given to the translator
\* and the TTS is the supported code the client supplied, or 'es' when the
\* request carries no targetLanguage field; a supplied code is never replaced.
C10_FallbackForDetectionOnly ==
  \A r \in Req :
    "translator" \in Range(log[r]) =>
      /\ srcLang[r] =
           IF AsrLanguage(r) \in SupportedLanguage THEN AsrLanguage(r) ELSE "en"
      /\ tgtLang[r] =
           IF formTargetLanguage[r] = NULL THEN "es" ELSE formTargetLanguage[r]
      /\ tgtLang[r] \in SupportedLanguage
      /\ "tts" \in Range(log[r]) => tts[r].model = TTS_MODEL[tgtLang[r]]

C10_Witness ==
  \E r \in Req :
    /\ "tts" \in Range(log[r])
    /\ asrResult[r].language = "ja" /\ srcLang[r] = "en"
    /\ formTargetLanguage[r] = "pt" /\ tgtLang[r] = "pt"
    /\ tts[r].model = TTS_MODEL["pt"]

\* --------------------------------------------------------------------- C11
\* The request holds its workspace: mkdtemp has returned and POST has not.
Holds(r) == workspace[r] # 0 /\ ~Done(r)

\* C11: in every interleaving of the requests, two requests that hold a
\* workspace at the same time hold different directories, and the directory of
\* a request exists for as long as the request holds it, whatever the other
\* requests have deleted in between.
C11_WorkspacesAreDisjoint ==
  /\ \A r1, r2 \in Req :
       r1 # r2 /\ Holds(r1) /\ Holds(r2) => workspace[r1] # workspace[r2]
  /\ \A r \in Req : Holds(r) => workspace[r] \in dirs

\* One request has failed and deleted its workspace while another, whose
\* workspace is still there, is mixing.
C11_Witness ==
  \E r1, r2 \in Req :
    /\ Done(r1) /\ workspace[r1] # 0 /\ workspace[r1] \notin dirs
    /\ response[r1].status = 500
    /\ pc[r2] = "mixTracks" /\ workspace[r2] \in dirs

\* --------------------------------------------------------------------- C12
\* C12: within one request every awaited call, each stage and each collaborator
\* among them, is issued at most once; and once a call has thrown, that call
\* has been issued exactly once and the request is in its cleanup or has
\* returned.
C12_NoRetry ==
  \A r \in Req :
    /\ \A call \in Range(log[r]) : Count(log[r], call) = 1
    /\ thrown[r] \notin {NULL, "formData"} =>
         /\ Count(log[r], FailedCall(thrown[r])) = 1
         /\ pc[r] \in {"rm", "done"}

\* The translation collaborator rejected: it was called once and the request is
\* over with the 500 response.
C12_Witness ==
  \E r \in Req :
    /\ thrown[r] = "translator" /\ Count(log[r], "translator") = 1
    /\ Done(r) /\ response[r].status = 500

\* --------------------------------------------------------------------- C13
\* C13: a request calls mkdtemp at most once and before every other call it
\* issues and every pipeline it constructs; it calls rm at most once and only
\* on the workspace it acquired; once a call has thrown after the acquisition,
\* and whenever POST has returned after it, rm has been called exactly once.
C13_OneWorkspaceOneCleanup ==
  \A r \in Req :
    /\ Count(log[r], "mkdtemp") <= 1
    /\ Count(log[r], "rm") <= 1
    /\ Range(log[r]) \ {"mkdtemp"} # {} => log[r][1] = "mkdtemp" /\ workspace[r] # 0
    /\ constructed[r] # {} => workspace[r] # 0
    /\ workspace[r] = 0 => "rm" \notin Range(log[r])
    /\ workspace[r] # 0 /\ (thrown[r] # NULL \/ Done(r)) => Count(log[r], "rm") = 1

\* The TTS collaborator failed after the workspace was acquired: one rm, and
\* POST has returned.
C13_Witness ==
  \E r \in Req :
    /\ Done(r) /\ thrown[r] = "tts" /\ workspace[r] # 0
    /\ Count(log[r], "rm") = 1 /\ log[r][1] = "mkdtemp"

\* --------------------------------------------------------------------- C14
\* The calls that produce the two artifacts mixTracks joins: the instrumental
\* (line 99) and the synthesized voice (lines 102-148).
BranchCalls == {"createInstrumental", "asr", "translator", "tts"}

JoinCalls == {"normalizeVoice", "mixTracks"}

\* C14: whenever a request has started normalizeVoice or mixTracks, it has
\* before that started createInstrumental, asr, translator and tts, none of
\* them is the call that threw, and the transcript and the translation both
\* had text.
C14_MixingIsJoinPoint ==
  \A r \in Req :
    \A j \in 1 .. Len(log[r]) :
      log[r][j] \in JoinCalls =>
        /\ \A b \in BranchCalls : \E i \in 1 .. j - 1 : log[r][i] = b
        /\ thrown[r] # NULL => FailedCall(thrown[r]) \notin BranchCalls
        /\ ~AsrTextMissing(asrResult[r])
        /\ ~TranslationTextMissing(translationResult[r])

\* mixTracks is running after both branches completed.
C14_Witness ==
  \E r \in Req :
    /\ pc[r] = "mixTracks" /\ thrown[r] = NULL
    /\ BranchCalls \subseteq Range(log[r])

\* --------------------------------------------------------------------- C15
\* C15: while readFile is pending the workspace exists and rm has not been
\* called; a request whose response is 200 has called mixTracks, then readFile,
\* then rm, as its last three calls, none of them threw, and its workspace no
\* longer exists when the response is returned.
C15_MixReadBeforeRelease ==
  \A r \in Req :
    /\ pc[r] = "readFile" => workspace[r] \in dirs /\ "rm" \notin Range(log[r])
    /\ response[r].status = 200 =>
         /\ Done(r) /\ thrown[r] = NULL
         /\ Len(log[r]) >= 3
         /\ SubSeq(log[r], Len(log[r]) - 2, Len(log[r])) =
              <<"mixTracks", "readFile", "rm">>
         /\ workspace[r] # 0 /\ workspace[r] \notin dirs

\* A request answered with the mix.
C15_Witness ==
  \E r \in Req :
    /\ response[r] = [status |-> 200, body |-> "mix.mp3"]
    /\ "readFile" \in Range(log[r]) /\ workspace[r] \notin dirs

\* --------------------------------------------------------------------- C16
\* C16: a request whose mkdtemp rejected has returned 500 'Failed to process
\* audio', has no workspace, issued no call besides mkdtemp (no stage, no
\* collaborator, no rm), constructed no pipeline and holds no pipeline.
C16_MkdtempFailureIsSurfaced ==
  \A r \in Req :
    thrown[r] = "mkdtemp" =>
      /\ Done(r)
      /\ response[r] = [status |-> 500, body |-> "Failed to process audio"]
      /\ workspace[r] = 0
      /\ log[r] = <<"mkdtemp">>
      /\ constructed[r] = {}
      /\ asr[r] = NoPipeline /\ translator[r] = NoPipeline /\ tts[r] = NoPipeline

\* mkdtemp rejected for a valid request.
C16_Witness ==
  \E r \in Req :
    /\ thrown[r] = "mkdtemp" /\ ValidRequest(r)
    /\ response[r].status = 500 /\ "rm" \notin Range(log[r])

\* --------------------------------------------------------------------- C17
\* The cached promise of a model is the one its only construction returned,
\* or empty if the model was never constructed.
CachedOnce(promise, model) ==
  IF ctorCalls[model] = 0
    THEN promise = NoPromise
    ELSE promise.model = model /\ promise.id = 1 /\ promise.st # "null"

\* C17: the constructor of each model has been called at most once, whether its
\* promise is pending, resolved or rejected; each cache slot still holds the
\* promise of that one construction; and a request that has awaited a rejected
\* promise has failed at that await without invoking that pipeline.
C17_ConstructedAtMostOnceEvenOnFailure ==
  /\ \A m \in Models : ctorCalls[m] <= 1
  /\ CachedOnce(asrPipelinePromise, ASR_MODEL)
  /\ CachedOnce(translationPipelinePromise, TRANSLATION_MODEL)
  /\ \A l \in SupportedLanguage : CachedOnce(ttsPipelines[l], TTS_MODEL[l])
  /\ \A r \in Req :
       /\ (asrPipelinePromise.st = "rejected"
             /\ "getASR" \in Range(log[r]) /\ pc[r] # "getASR") =>
            /\ thrown[r] = "getASR"
            /\ "asr" \notin Range(log[r]) /\ asr[r] = NoPipeline
       /\ (translationPipelinePromise.st = "rejected"
             /\ "getTranslator" \in Range(log[r]) /\ pc[r] # "getTranslator") =>
            /\ thrown[r] = "getTranslator"
            /\ "translator" \notin Range(log[r]) /\ translator[r] = NoPipeline
       /\ (targetLanguage[r] \in SupportedLanguage
             /\ ttsPipelines[targetLanguage[r]].st = "rejected"
             /\ "getTTS" \in Range(log[r]) /\ pc[r] # "getTTS") =>
            /\ thrown[r] = "getTTS"
            /\ "tts" \notin Range(log[r]) /\ tts[r] = NoPipeline

\* The ASR construction failed: the request that started it and another request
\* that only found the promise in the cache have both failed at getASR, after
\* one constructor call.
C17_Witness ==
  \E r1, r2 \in Req :
    /\ asrPipelinePromise.st = "rejected" /\ ctorCalls[ASR_MODEL] = 1
    /\ ASR_MODEL \in constructed[r1] /\ ASR_MODEL \notin constructed[r2]
    /\ Done(r1) /\ thrown[r1] = "getASR"
    /\ Done(r2) /\ thrown[r2] = "getASR" /\ response[r2].status = 500

\* --------------------------------------------------------------------- C18
\* C18: a call of handleSubmit that has set 'completed' or 'error' has none of
\* its timers scheduled any more, and the status on display was not written by
\* one of its timers; a download URL on display was set by a call that set
\* 'completed', and as long as that call is the last one to have written the
\* status, the status is 'completed'.
C18_NoTimerAfterTerminalStatus ==
  /\ \A s \in Sub :
       phase[s] = "settled" =>
         /\ outcome[s] \in {"completed", "error"}
         /\ timeouts[s] = {}
         /\ statusSetBy # [by |-> "timeout", sub |-> s]
  /\ downloadUrl # 0 =>
       /\ outcome[downloadUrl] = "completed"
       /\ statusSetBy.sub = downloadUrl =>
            statusSetBy.by = "try" /\ status = "completed"

\* A call completed after its first timer had run and before its last one was
\* due: the remaining timers were cleared and its URL is on display.
C18_Witness ==
  \E s \in Sub :
    /\ outcome[s] = "completed" /\ downloadUrl = s /\ status = "completed"
    /\ elapsed[s] \in 1 .. Len(timeline) - 1
    /\ timeouts[s] = {}

\* --------------------------------------------------------------------- C19
InFlightSubs == {s \in Sub : InFlight(s)}

\* C19 as stated: at most one call of handleSubmit is suspended at an await of
\* its request at a time, and while one is, the submit button is disabled.
C19_SingleSubmissionInFlight ==
  /\ Cardinality(InFlightSubs) <= 1
  /\ InFlightSubs # {} => SubmitDisabled

====
